---------------------------- MODULE Spec2Model ----------------------------
(***************************************************************************)
(* uc3m_money: AccountManager (account_manager.py) and AccountDeposit      *)
(* (account_deposit.py).  Strings the code inspects character by character *)
(* (IBANs, concepts, dates, deposit amounts) are sequences of one-         *)
(* character strings; the four JSON store files are records                *)
(* [st, recs] with st in {"absent", "bad", "json"}.                        *)
(***************************************************************************)
EXTENDS Integers, Sequences, FiniteSets, TLC

VARIABLES
    transfers,      \* TRANSFERS_STORE_FILE
    deposits,       \* DEPOSITS_STORE_FILE
    balances,       \* BALANCES_STORE_FILE
    transactions,   \* TRANSACTIONS_STORE_FILE (external, read only)
    today,          \* datetime.now(timezone.utc).date()
    clock,          \* datetime.timestamp(datetime.now(timezone.utc))
    result,         \* the last call: operation, arguments, outcome, stores before it
    pc,             \* per invocation: position inside transfer_request
    local,          \* per invocation: arguments and the local transfer_list
    returned,       \* transfers whose call returned a transfer code
    overlapped,     \* some invocation loaded while another was between load and rewrite
    iban_arg,       \* argument of a validate_iban call made on its own
    iban_out,       \* its outcome
    date_arg,       \* argument of a validate_transfer_date call made on its own
    date_out        \* its outcome

vars == <<transfers, deposits, balances, transactions, today, clock, result,
          pc, local, returned, overlapped,
          iban_arg, iban_out, date_arg, date_out>>

storeVars == <<transfers, deposits, balances, transactions, today, clock, result>>
concVars == <<pc, local, returned, overlapped>>
ibanVars == <<iban_arg, iban_out>>
dateVars == <<date_arg, date_out>>

(***************************************************************************)
(* Characters and decimal strings                                          *)
(***************************************************************************)
DigitChars == <<"0", "1", "2", "3", "4", "5", "6", "7", "8", "9">>

UpperCase == <<"A", "B", "C", "D", "E", "F", "G", "H", "I", "J", "K", "L", "M",
               "N", "O", "P", "Q", "R", "S", "T", "U", "V", "W", "X", "Y", "Z">>

LowerCase == <<"a", "b", "c", "d", "e", "f", "g", "h", "i", "j", "k", "l", "m",
               "n", "o", "p", "q", "r", "s", "t", "u", "v", "w", "x", "y", "z">>

Range(s) == {s[i] : i \in DOMAIN s}

DigitSet == Range(DigitChars)
UpperSet == Range(UpperCase)
AlphaSet == Range(UpperCase) \cup Range(LowerCase)

\* [0-9] and \d on ASCII input
IsDigit(ch) == ch \in DigitSet

\* 'A' <= ch <= 'Z'
IsUpper(ch) == ch \in UpperSet

\* [a-zA-Z]
IsAlpha(ch) == ch \in AlphaSet

\* int(ch) of one digit
DigitValues == [ch \in DigitSet |-> (CHOOSE i \in DOMAIN DigitChars : DigitChars[i] = ch) - 1]

DigitVal(ch) == DigitValues[ch]

\* ord(ch) - ord('A') + 10
LetterNumbers == [ch \in UpperSet |-> (CHOOSE i \in DOMAIN UpperCase : UpperCase[i] = ch) + 9]

LetterNumber(ch) == LetterNumbers[ch]

\* str(n) of a natural number
RECURSIVE StrOfNat(_)
StrOfNat(n) ==
    IF n < 10 THEN <<DigitChars[n + 1]>>
    ELSE StrOfNat(n \div 10) \o <<DigitChars[(n % 10) + 1]>>

\* int(s) of a short all-digit string (at most nine digits)
RECURSIVE IntOfDigits(_)
IntOfDigits(s) ==
    IF s = <<>> THEN 0
    ELSE 10 * IntOfDigits(SubSeq(s, 1, Len(s) - 1)) + DigitVal(s[Len(s)])

(***************************************************************************)
(* validate_iban                                                           *)
(***************************************************************************)
\* re.compile(r"^ES[0-9]{22}").fullmatch(iban_input)
iban_pattern(s) ==
    /\ Len(s) = 24
    /\ s[1] = "E"
    /\ s[2] = "S"
    /\ \A i \in 3..24 : IsDigit(s[i])

\* ''.join(str(ord(ch) - ord('A') + 10) if 'A' <= ch <= 'Z' else ch for ch in iban)
RECURSIVE ReplaceLetters(_)
ReplaceLetters(s) ==
    IF s = <<>> THEN <<>>
    ELSE (IF IsUpper(Head(s)) THEN StrOfNat(LetterNumber(Head(s))) ELSE <<Head(s)>>)
         \o ReplaceLetters(Tail(s))

\* int(iban): the arbitrary-precision integer, held as limbs of six decimal
\* digits, most significant limb first (the first limb takes the leftover digits)
RECURSIVE BigInt(_)
BigInt(s) ==
    IF Len(s) <= 6 THEN <<IntOfDigits(s)>>
    ELSE BigInt(SubSeq(s, 1, Len(s) - 6)) \o <<IntOfDigits(SubSeq(s, Len(s) - 5, Len(s)))>>

\* int_i % m: long division of the limbs
RECURSIVE BigMod(_, _)
BigMod(limbs, m) ==
    IF limbs = <<>> THEN 0
    ELSE (BigMod(SubSeq(limbs, 1, Len(limbs) - 1), m) * 1000000 + limbs[Len(limbs)]) % m

\* lines 44-48: zero the control digits and move the first four characters to the end
Rearranged(iban_input) ==
    LET zeroed == SubSeq(iban_input, 1, 2) \o <<"0", "0">>
                  \o SubSeq(iban_input, 5, Len(iban_input))
    IN  SubSeq(zeroed, 5, Len(zeroed)) \o SubSeq(zeroed, 1, 4)

ControlDigit_wrong97(iban_input) ==
    97 - BigMod(BigInt(ReplaceLetters(Rearranged(iban_input))), 97)

\* lines 59-65: control_digit = 98 - int(iban) % 97
ControlDigit(iban_input) ==
    98 - BigMod(BigInt(ReplaceLetters(Rearranged(iban_input))), 97)

validate_iban_nocheck(iban_input) ==
    IF ~iban_pattern(iban_input) THEN "Invalid IBAN format" ELSE "ok"

\* "ok" stands for the return of iban_input; otherwise the exception's message
validate_iban(iban_input) ==
    IF ~iban_pattern(iban_input) THEN "Invalid IBAN format"
    ELSE IF IntOfDigits(SubSeq(iban_input, 3, 4)) # ControlDigit(iban_input)
         THEN "Invalid IBAN control digit"
         ELSE "ok"

DigitStr(ds) == [i \in DOMAIN ds |-> DigitChars[ds[i] + 1]]

Pad2(n) == <<DigitChars[(n \div 10) + 1], DigitChars[(n % 10) + 1]>>

Pad4(n) == Pad2(n \div 100) \o Pad2(n % 100)

EsIban(code, ds) == <<"E", "S">> \o Pad2(code) \o DigitStr(ds)

\* ES9121000418450200051332
IbanA == EsIban(91, <<2, 1, 0, 0, 0, 4, 1, 8, 4, 5, 0, 2, 0, 0, 0, 5, 1, 3, 3, 2>>)

\* ES9812345678901234567890
IbanB == EsIban(98, <<1, 2, 3, 4, 5, 6, 7, 8, 9, 0, 1, 2, 3, 4, 5, 6, 7, 8, 9, 0>>)

\* ES1234567890123456789012: well formed, wrong control digits
IbanBadControl ==
    EsIban(12, <<3, 4, 5, 6, 7, 8, 9, 0, 1, 2, 3, 4, 5, 6, 7, 8, 9, 0, 1, 2>>)

\* ES912100041845020005133: one digit short
IbanBadFormat == SubSeq(IbanA, 1, 23)

\* The IBANs the store operations are called with
IbanArguments == {IbanA, IbanB, IbanBadControl, IbanBadFormat}

\* validate_iban is pure: its verdict on each of IbanArguments, computed once
IbanVerdict == [s \in IbanArguments |-> validate_iban(s)]

ValidateIban(s) == IbanVerdict[s]

(***************************************************************************)
(* validate_concept                                                        *)
(***************************************************************************)
\* \s on the characters the inputs use
IsSpace(ch) == ch \in {" ", "\t", "\n"}

\* ^(?=^.{10,30}$)([a-zA-Z]+(\s[a-zA-Z]+)+)$ : between 10 and 30 characters, none a
\* line break (the dot), two or more runs of letters, one \s between neighbours
concept_pattern(s) ==
    /\ Len(s) >= 10
    /\ Len(s) <= 30
    /\ \A i \in DOMAIN s : s[i] # "\n"
    /\ \A i \in DOMAIN s : IsAlpha(s[i]) \/ IsSpace(s[i])
    /\ IsAlpha(s[1])
    /\ IsAlpha(s[Len(s)])
    /\ \A i \in 1..(Len(s) - 1) : ~(IsSpace(s[i]) /\ IsSpace(s[i + 1]))
    /\ \E i \in DOMAIN s : IsSpace(s[i])

validate_concept(concept) ==
    IF concept_pattern(concept) THEN "ok" ELSE "Invalid concept format"

(***************************************************************************)
(* validate_transfer_date                                                  *)
(***************************************************************************)
\* ^(([0-2]\d|3[0-1])\/(0\d|1[0-2])\/\d\d\d\d)$
date_pattern(s) ==
    /\ Len(s) = 10
    /\ s[3] = "/"
    /\ s[6] = "/"
    /\ \A i \in {1, 2, 4, 5, 7, 8, 9, 10} : IsDigit(s[i])
    /\ \/ s[1] \in {"0", "1", "2"}
       \/ s[1] = "3" /\ s[2] \in {"0", "1"}
    /\ \/ s[4] = "0"
       \/ s[4] = "1" /\ s[5] \in {"0", "1", "2"}

IsLeap(y) == (y % 4 = 0 /\ y % 100 # 0) \/ y % 400 = 0

DaysInMonth(m, y) ==
    IF m = 2 THEN (IF IsLeap(y) THEN 29 ELSE 28)
    ELSE IF m \in {4, 6, 9, 11} THEN 30 ELSE 31

\* datetime.strptime(date_str, "%d/%m/%Y").date() on a string date_pattern matched:
\* ok = FALSE stands for the ValueError
strptime(s) ==
    LET d == IntOfDigits(SubSeq(s, 1, 2))
        m == IntOfDigits(SubSeq(s, 4, 5))
        y == IntOfDigits(SubSeq(s, 7, 10))
    IN  [ok |-> y >= 1 /\ m >= 1 /\ m <= 12 /\ d >= 1 /\ d <= DaysInMonth(m, y),
         y |-> y, m |-> m, d |-> d]

\* date.__lt__
DateLess(a, b) ==
    \/ a.y < b.y
    \/ a.y = b.y /\ a.m < b.m
    \/ a.y = b.y /\ a.m = b.m /\ a.d < b.d

validate_transfer_date_yearfirst(date_str, now_date) ==
    IF ~date_pattern(date_str) THEN "Invalid date format"
    ELSE LET parsed_date == strptime(date_str)
         IN  IF ~parsed_date.ok THEN "Invalid date format"
             ELSE IF parsed_date.y < 2025 \/ parsed_date.y > 2050
                  THEN "Invalid date format"
             ELSE IF DateLess(parsed_date, now_date)
                  THEN "Transfer date must be today or later."
             ELSE "ok"

\* now_date is datetime.now(timezone.utc).date()
validate_transfer_date(date_str, now_date) ==
    IF ~date_pattern(date_str) THEN "Invalid date format"
    ELSE LET parsed_date == strptime(date_str)
         IN  IF ~parsed_date.ok THEN "Invalid date format"
             ELSE IF DateLess(parsed_date, now_date)
                  THEN "Transfer date must be today or later."
             ELSE IF parsed_date.y < 2025 \/ parsed_date.y > 2050
                  THEN "Invalid date format"
             ELSE "ok"

(***************************************************************************)
(* transfer type and amount (transfer_request, lines 113-131)              *)
(***************************************************************************)
\* re.compile(r"(ORDINARY|INMEDIATE|URGENT)").fullmatch(transfer_type)
transfer_type_pattern(transfer_type) ==
    transfer_type \in {"ORDINARY", "INMEDIATE", "URGENT"}

(* An amount argument is [kind, milli, text]: a Python float or int of value   *)
(* milli/1000 (text = <<>>), or a str with the characters text (milli = 0).    *)
(* The texts drawn are plain decimals with at most three fraction digits, or   *)
(* hold a letter; none uses a sign, an exponent, blanks, "inf" or "nan".       *)
IsPlainDecimal(text) ==
    /\ Len(text) >= 1
    /\ \A i \in DOMAIN text : IsDigit(text[i]) \/ text[i] = "."
    /\ Cardinality({i \in DOMAIN text : text[i] = "."}) <= 1
    /\ IsDigit(text[1])
    /\ IsDigit(text[Len(text)])

DotAt(text) ==
    IF \E i \in DOMAIN text : text[i] = "."
    THEN CHOOSE i \in DOMAIN text : text[i] = "."
    ELSE Len(text) + 1

\* the value of a plain decimal, in thousandths
MilliOfText(text) ==
    LET dot  == DotAt(text)
        frac == SubSeq(text, dot + 1, Len(text))
        pad  == frac \o SubSeq(<<"0", "0", "0">>, 1, 3 - Len(frac))
    IN  IntOfDigits(SubSeq(text, 1, dot - 1)) * 1000 + IntOfDigits(pad)

\* float(amount): ok = FALSE stands for the ValueError
float_of(amount) ==
    IF amount.kind = "str"
    THEN IF IsPlainDecimal(amount.text)
         THEN [ok |-> TRUE, milli |-> MilliOfText(amount.text)]
         ELSE [ok |-> FALSE, milli |-> 0]
    ELSE [ok |-> TRUE, milli |-> amount.milli]

\* len(str(amount_value).split('.')[1]): repr of a float keeps the shortest
\* fraction that round-trips, and at least one digit ("10.0")
decimal_count(milli) ==
    IF milli % 1000 = 0 THEN 1
    ELSE IF milli % 100 = 0 THEN 1
    ELSE IF milli % 10 = 0 THEN 2
    ELSE 3

\* lines 119-131
validate_amount(amount) ==
    LET amount_value == float_of(amount)
    IN  IF ~amount_value.ok THEN "Invalid transfer amount"
        ELSE IF decimal_count(amount_value.milli) > 2 THEN "Invalid transfer amount"
        ELSE IF amount_value.milli < 10 * 1000 \/ amount_value.milli > 10000 * 1000
             THEN "Invalid transfer amount"
        ELSE "ok"

\* The first failing check, in the order of the calls
FirstError(checks) ==
    IF \E i \in DOMAIN checks : checks[i] # "ok"
    THEN checks[CHOOSE i \in DOMAIN checks :
                    /\ checks[i] # "ok"
                    /\ \A j \in 1..(i - 1) : checks[j] = "ok"]
    ELSE "ok"

TransferValidation_datefirst(t, now_date) ==
    FirstError(<<validate_transfer_date(t.transfer_date, now_date),
                 ValidateIban(t.from_iban),
                 ValidateIban(t.to_iban),
                 validate_concept(t.transfer_concept),
                 IF transfer_type_pattern(t.transfer_type)
                 THEN "ok" ELSE "Invalid transfer type",
                 validate_amount(t.transfer_amount)>>)

\* transfer_request, lines 110-131: each check raises before the next one runs
TransferValidation(t, now_date) ==
    FirstError(<<ValidateIban(t.from_iban),
                 ValidateIban(t.to_iban),
                 validate_concept(t.transfer_concept),
                 IF transfer_type_pattern(t.transfer_type)
                 THEN "ok" ELSE "Invalid transfer type",
                 validate_transfer_date(t.transfer_date, now_date),
                 validate_amount(t.transfer_amount)>>)

(***************************************************************************)
(* Store files                                                             *)
(***************************************************************************)
AbsentFile == [st |-> "absent", recs |-> <<>>]

\* a file that is present and is not valid JSON
BadFile == [st |-> "bad", recs |-> <<>>]

\* json.dump(list, file, indent=2) into a file opened with "w"
JsonFile(list) == [st |-> "json", recs |-> list]

LoadStore_badAsEmpty(file) ==
    IF file.st = "json" THEN [out |-> "ok", list |-> file.recs]
    ELSE [out |-> "ok", list |-> <<>>]

\* lines 140-146, 199-205, 249-255: FileNotFoundError gives [], JSONDecodeError raises
LoadStore(file) ==
    IF file.st = "absent" THEN [out |-> "ok", list |-> <<>>]
    ELSE IF file.st = "bad"
         THEN [out |-> "JSON Decode Error - Wrong JSON Format", list |-> <<>>]
         ELSE [out |-> "ok", list |-> file.recs]

\* read_transactions_file: both exceptions raise
read_transactions_file(file) ==
    IF file.st = "absent" THEN [out |-> "Wrong file  or file path", list |-> <<>>]
    ELSE IF file.st = "bad"
         THEN [out |-> "JSON Decode Error - Wrong JSON Format", list |-> <<>>]
         ELSE [out |-> "ok", list |-> file.recs]

(***************************************************************************)
(* transfer_request                                                        *)
(***************************************************************************)
\* Python's == on two amounts: an int and a float compare by value, two str by
\* their characters, a str never equals a number.  json.dump followed by
\* json.load gives back a str as the same str, an int as an int and a float as
\* the same float, so the stored amount is the argument.
AmountEq(a, b) ==
    IF a.kind = "str" \/ b.kind = "str"
    THEN a.kind = b.kind /\ a.text = b.text
    ELSE a.milli = b.milli

\* TransferRequest(...): the object keeps the six arguments as its properties
TransferRequest(from_iban, to_iban, transfer_concept, transfer_type, transfer_date, transfer_amount) ==
    [from_iban |-> from_iban, to_iban |-> to_iban,
     transfer_concept |-> transfer_concept, transfer_type |-> transfer_type,
     transfer_date |-> transfer_date, transfer_amount |-> transfer_amount]

\* TransferRequest.transfer_code: a hash of the request's fields
TransferCode(t) ==
    <<"code", t.from_iban, t.to_iban, t.transfer_type, t.transfer_date,
      t.transfer_amount, t.transfer_concept>>

\* TransferRequest.to_json()
TransferToJson(t) ==
    [from_iban |-> t.from_iban, to_iban |-> t.to_iban,
     transfer_type |-> t.transfer_type, transfer_date |-> t.transfer_date,
     transfer_amount |-> t.transfer_amount, transfer_concept |-> t.transfer_concept,
     transfer_code |-> TransferCode(t)]

IsDuplicate_noAmount(transfer_list, new_transfer) ==
    \E i \in DOMAIN transfer_list :
        /\ transfer_list[i].from_iban = new_transfer.from_iban
        /\ transfer_list[i].to_iban = new_transfer.to_iban
        /\ transfer_list[i].transfer_date = new_transfer.transfer_date
        /\ transfer_list[i].transfer_concept = new_transfer.transfer_concept
        /\ transfer_list[i].transfer_type = new_transfer.transfer_type

IsDuplicate_never(transfer_list, new_transfer) == FALSE

\* lines 148-155
IsDuplicate(transfer_list, new_transfer) ==
    \E i \in DOMAIN transfer_list :
        /\ transfer_list[i].from_iban = new_transfer.from_iban
        /\ transfer_list[i].to_iban = new_transfer.to_iban
        /\ transfer_list[i].transfer_date = new_transfer.transfer_date
        /\ AmountEq(transfer_list[i].transfer_amount, new_transfer.transfer_amount)
        /\ transfer_list[i].transfer_concept = new_transfer.transfer_concept
        /\ transfer_list[i].transfer_type = new_transfer.transfer_type

\* lines 110-157 on the file as it is read: the outcome and the list to write
TransferOutcome(t, file, now_date) ==
    LET checked == TransferValidation(t, now_date)
        new_transfer == TransferRequest(t.from_iban, t.to_iban, t.transfer_concept,
                                        t.transfer_type, t.transfer_date,
                                        t.transfer_amount)
        loaded  == LoadStore(file)
    IN  IF checked # "ok" THEN [out |-> checked, list |-> <<>>]
        ELSE IF loaded.out # "ok" THEN [out |-> loaded.out, list |-> <<>>]
        ELSE IF IsDuplicate(loaded.list, new_transfer)
             THEN [out |-> "Duplicated transfer in transfer list", list |-> <<>>]
        ELSE [out |-> "ok", list |-> Append(loaded.list, TransferToJson(new_transfer))]

Stores == [transfers |-> transfers, deposits |-> deposits, balances |-> balances]

TotalRecords == Len(transfers.recs) + Len(deposits.recs) + Len(balances.recs)

(***************************************************************************)
(* deposit_into_account and AccountDeposit                                 *)
(***************************************************************************)
HasRequiredKeys_exact(input_data) == DOMAIN input_data = {"IBAN", "AMOUNT"}

\* lines 180-184: input_data["IBAN"] and input_data["AMOUNT"] raise KeyError when absent
HasRequiredKeys(input_data) == {"IBAN", "AMOUNT"} \subseteq DOMAIN input_data

\* re.compile(r"^EUR [0-9]{4}\.[0-9]{2}").fullmatch(deposit_amount)
deposit_amount_pattern(s) ==
    /\ Len(s) = 11
    /\ SubSeq(s, 1, 4) = <<"E", "U", "R", " ">>
    /\ \A i \in {5, 6, 7, 8, 10, 11} : IsDigit(s[i])
    /\ s[9] = "."

\* float(deposit_amount[4:]), in hundredths
deposit_amount_value(s) ==
    IntOfDigits(SubSeq(s, 5, 8)) * 100 + IntOfDigits(SubSeq(s, 10, 11))

\* AccountDeposit.deposit_signature: sha256 of _get_signature_string()
deposit_signature(alg, type, to_iban, deposit_amount, deposit_timestamp) ==
    <<"sha256", "{alg:", alg, ",typ:", type, ",iban:", to_iban,
      ",amount:", deposit_amount, ",deposit_date:", deposit_timestamp, "}">>

\* AccountDeposit.__init__ and to_json()
AccountDeposit(to_iban, deposit_amount, now_ts) ==
    [alg |-> "SHA-256", type |-> "DEPOSIT", to_iban |-> to_iban,
     deposit_amount |-> deposit_amount, deposit_timestamp |-> now_ts,
     deposit_signature |->
        deposit_signature("SHA-256", "DEPOSIT", to_iban, deposit_amount, now_ts)]

DepositAppend_overwrite(deposit_list, deposit_json) == <<deposit_json>>

\* line 207
DepositAppend(deposit_list, deposit_json) == Append(deposit_list, deposit_json)

\* lines 171-207 on the files as they are read: the outcome and the list to write
DepositOutcome(input_file, file, now_ts) ==
    IF input_file.st = "absent"
    THEN [out |-> "Error: file input not found", list |-> <<>>]
    ELSE IF input_file.st = "bad"
    THEN [out |-> "JSON Decode Error - Wrong JSON Format", list |-> <<>>]
    ELSE IF ~HasRequiredKeys(input_file.data)
    THEN [out |-> "Error - Invalid Key in JSON", list |-> <<>>]
    ELSE IF ValidateIban(input_file.data.IBAN) # "ok"
    THEN [out |-> ValidateIban(input_file.data.IBAN), list |-> <<>>]
    ELSE IF ~deposit_amount_pattern(input_file.data.AMOUNT)
    THEN [out |-> "Error - Invalid deposit amount", list |-> <<>>]
    ELSE IF deposit_amount_value(input_file.data.AMOUNT) = 0
    THEN [out |-> "Error - Deposit must be greater than 0", list |-> <<>>]
    ELSE IF LoadStore(file).out # "ok"
    THEN [out |-> LoadStore(file).out, list |-> <<>>]
    ELSE [out |-> "ok",
          list |-> DepositAppend(LoadStore(file).list,
                       AccountDeposit(input_file.data.IBAN,
                                      deposit_amount_value(input_file.data.AMOUNT),
                                      now_ts))]

(***************************************************************************)
(* calculate_balance                                                       *)
(***************************************************************************)
RECURSIVE BalanceSum_all(_, _)
BalanceSum_all(transaction_list, iban) ==
    IF transaction_list = <<>> THEN 0
    ELSE Head(transaction_list).amount + BalanceSum_all(Tail(transaction_list), iban)

\* lines 236-240: balance_sum over the transactions whose IBAN is iban
RECURSIVE BalanceSum(_, _)
BalanceSum(transaction_list, iban) ==
    IF transaction_list = <<>> THEN 0
    ELSE (IF Head(transaction_list).IBAN = iban
          THEN Head(transaction_list).amount ELSE 0)
         + BalanceSum(Tail(transaction_list), iban)

\* lines 235-241: iban_found
IbanFound(transaction_list, iban) ==
    \E i \in DOMAIN transaction_list : transaction_list[i].IBAN = iban

\* lines 233-257 on the files as they are read: the outcome and the list to write
BalanceOutcome(iban, transactions_file, file, now_ts) ==
    LET read == read_transactions_file(transactions_file)
    IN  IF ValidateIban(iban) # "ok" THEN [out |-> ValidateIban(iban), list |-> <<>>]
        ELSE IF read.out # "ok" THEN [out |-> read.out, list |-> <<>>]
        ELSE IF ~IbanFound(read.list, iban) THEN [out |-> "IBAN not found", list |-> <<>>]
        ELSE IF LoadStore(file).out # "ok" THEN [out |-> LoadStore(file).out, list |-> <<>>]
        ELSE [out |-> "ok",
              list |-> Append(LoadStore(file).list,
                              [IBAN |-> iban, time |-> now_ts,
                               BALANCE |-> BalanceSum(read.list, iban)])]

(***************************************************************************)
(* Bounds of the model                                                     *)
(***************************************************************************)
\* records held by the three written stores together
MaxRecords == 2

\* readings of the clock
MaxClock == 1

(***************************************************************************)
(* Arguments the calls are made with                                       *)
(***************************************************************************)
\* "rent payment"
ConceptA == <<"r", "e", "n", "t", " ", "p", "a", "y", "m", "e", "n", "t">>

\* "Gift for Mum"
ConceptB == <<"G", "i", "f", "t", " ", "f", "o", "r", " ", "M", "u", "m">>

\* "rent paym3nt"
ConceptDigit == <<"r", "e", "n", "t", " ", "p", "a", "y", "m", "3", "n", "t">>

\* "DD/MM/YYYY"
DateStr(d, m, y) == Pad2(d) \o <<"/">> \o Pad2(m) \o <<"/">> \o Pad4(y)

Date(d, m, y) == [y |-> y, m |-> m, d |-> d]

FloatAmount(milli) == [kind |-> "float", milli |-> milli, text |-> <<>>]
IntAmount(units) == [kind |-> "int", milli |-> units * 1000, text |-> <<>>]
StrAmount(text) == [kind |-> "str", milli |-> 0, text |-> text]

\* the UTC date of the runs that use the stores
Today == Date(4, 11, 2026)

BaseTransfer ==
    [from_iban |-> IbanA, to_iban |-> IbanB, transfer_concept |-> ConceptA,
     transfer_type |-> "ORDINARY", transfer_date |-> DateStr(4, 11, 2026),
     transfer_amount |-> FloatAmount(100000)]

\* BaseTransfer, BaseTransfer with one argument changed to another valid value
\* (the amount also to the int 100 and to the str "100.0"), and with one
\* argument invalid
TransferInputs ==
    {BaseTransfer,
     [BaseTransfer EXCEPT !.from_iban = IbanB],
     [BaseTransfer EXCEPT !.to_iban = IbanA],
     [BaseTransfer EXCEPT !.transfer_concept = ConceptB],
     [BaseTransfer EXCEPT !.transfer_type = "URGENT"],
     [BaseTransfer EXCEPT !.transfer_date = DateStr(31, 12, 2050)],
     [BaseTransfer EXCEPT !.transfer_amount = FloatAmount(100500)],
     [BaseTransfer EXCEPT !.transfer_amount = IntAmount(100)],
     [BaseTransfer EXCEPT !.transfer_amount = StrAmount(<<"1", "0", "0", ".", "0">>)],
     [BaseTransfer EXCEPT !.from_iban = IbanBadControl],
     [BaseTransfer EXCEPT !.to_iban = IbanBadFormat],
     [BaseTransfer EXCEPT !.transfer_date = DateStr(3, 11, 2026)]}

\* "EUR 1234.56", "EUR 0001.00", "EUR 0000.00", "EUR 12.50"
Eur1234 == <<"E", "U", "R", " ", "1", "2", "3", "4", ".", "5", "6">>
Eur0001 == <<"E", "U", "R", " ", "0", "0", "0", "1", ".", "0", "0">>
EurZero == <<"E", "U", "R", " ", "0", "0", "0", "0", ".", "0", "0">>
EurShort == <<"E", "U", "R", " ", "1", "2", ".", "5", "0">>

\* the decoded content of an input file that holds a JSON object
InputObject(keys, iban, amount) ==
    [st |-> "json",
     data |-> [k \in keys |-> IF k = "IBAN" THEN iban
                              ELSE IF k = "AMOUNT" THEN amount
                              ELSE <<"x">>]]

DepositInputs ==
    {InputObject({"IBAN", "AMOUNT"}, IbanA, Eur1234),
     InputObject({"IBAN", "AMOUNT"}, IbanB, Eur1234),
     InputObject({"IBAN", "AMOUNT"}, IbanA, Eur0001),
     InputObject({"IBAN", "AMOUNT"}, IbanBadControl, Eur1234),
     InputObject({"IBAN", "AMOUNT"}, IbanA, EurZero)}

BalanceInputs == {IbanA, IbanB, IbanBadControl}

Transaction(iban, amount) == [IBAN |-> iban, amount |-> amount]

\* [{IBAN: A, amount: 50}, {IBAN: B, amount: 7}, {IBAN: A, amount: -20}]
TransactionsA == <<Transaction(IbanA, 50), Transaction(IbanB, 7), Transaction(IbanA, -20)>>

(***************************************************************************)
(* The operations, each one whole call                                     *)
(***************************************************************************)
\* ret is what the call returned, <<>> when it raised
Call(op, args, outcome, ret) ==
    [op |-> op, args |-> args, out |-> outcome, ret |-> ret, before |-> Stores]

NoCall ==
    [op |-> "none", args |-> <<>>, out |-> "none", ret |-> <<>>,
     before |-> [transfers |-> AbsentFile, deposits |-> AbsentFile,
                 balances |-> AbsentFile]]

transfer_request(t) ==
    \E o \in {TransferOutcome(t, transfers, today)} :
        /\ o.out = "ok" => TotalRecords < MaxRecords
        /\ transfers' = IF o.out = "ok" THEN JsonFile(o.list) ELSE transfers
        /\ result' = Call("transfer_request", t, o.out,
                          IF o.out = "ok" THEN TransferCode(t) ELSE <<>>)
        /\ UNCHANGED <<deposits, balances, transactions, today, clock>>
        /\ UNCHANGED <<concVars, ibanVars, dateVars>>

deposit_into_account(input_file) ==
    \E o \in {DepositOutcome(input_file, deposits, clock)} :
        /\ o.out = "ok" => TotalRecords < MaxRecords
        /\ deposits' = IF o.out = "ok" THEN JsonFile(o.list) ELSE deposits
        /\ result' = Call("deposit_into_account", input_file, o.out,
                          IF o.out = "ok"
                          THEN o.list[Len(o.list)].deposit_signature ELSE <<>>)
        /\ UNCHANGED <<transfers, balances, transactions, today, clock>>
        /\ UNCHANGED <<concVars, ibanVars, dateVars>>

calculate_balance(iban) ==
    \E o \in {BalanceOutcome(iban, transactions, balances, clock)} :
        /\ o.out = "ok" => TotalRecords < MaxRecords
        /\ balances' = IF o.out = "ok" THEN JsonFile(o.list) ELSE balances
        /\ result' = Call("calculate_balance", iban, o.out,
                          IF o.out = "ok" THEN <<TRUE>> ELSE <<>>)
        /\ UNCHANGED <<transfers, deposits, transactions, today, clock>>
        /\ UNCHANGED <<concVars, ibanVars, dateVars>>

\* time passes between two calls
Tick ==
    /\ clock < MaxClock
    /\ clock' = clock + 1
    /\ UNCHANGED <<transfers, deposits, balances, transactions, today, result>>
    /\ UNCHANGED <<concVars, ibanVars, dateVars>>

(***************************************************************************)
(* Sequential calls, starting with no store file but the transactions      *)
(***************************************************************************)
Procs == {1, 2}

NoLocal == [t |-> <<>>, list |-> <<>>, stale |-> FALSE]

IdleConc ==
    /\ pc = [p \in Procs |-> "idle"]
    /\ local = [p \in Procs |-> NoLocal]
    /\ returned = <<>>
    /\ overlapped = FALSE

NoVerdict == [out |-> "none", ret |-> <<>>]

IdleIban == iban_arg = <<>> /\ iban_out = NoVerdict

IdleDate == date_arg = <<>> /\ date_out = "none"

Init ==
    /\ transfers = AbsentFile
    /\ deposits = AbsentFile
    /\ balances = AbsentFile
    /\ transactions = JsonFile(TransactionsA)
    /\ today = Today
    /\ clock = 0
    /\ result = NoCall
    /\ IdleConc
    /\ IdleIban
    /\ IdleDate

Next ==
    \/ \E t \in TransferInputs : transfer_request(t)
    \/ \E input_file \in DepositInputs : deposit_into_account(input_file)
    \/ \E iban \in BalanceInputs : calculate_balance(iban)
    \/ Tick

Spec == Init /\ [][Next]_vars

(***************************************************************************)
(* Properties of sequential calls                                          *)
(***************************************************************************)
\* acc = (acc * 10 + digit) mod 97, digit by digit from the left
RECURSIVE HornerMod97(_, _)
HornerMod97(acc, digits) ==
    IF digits = <<>> THEN acc
    ELSE HornerMod97((acc * 10 + DigitVal(Head(digits))) % 97, Tail(digits))

\* ES and 22 digits whose two control digits are 98 - (N mod 97), N being the
\* last 20 digits followed by 142800, reduced digit by digit
PassesMod97(s) ==
    /\ Len(s) = 24
    /\ SubSeq(s, 1, 2) = <<"E", "S">>
    /\ \A i \in 3..24 : s[i] \in {"0", "1", "2", "3", "4", "5", "6", "7", "8", "9"}
    /\ 10 * DigitVal(s[3]) + DigitVal(s[4])
         = 98 - HornerMod97(0, SubSeq(s, 5, 24) \o <<"1", "4", "2", "8", "0", "0">>)

SixFieldsAgree(rec, t) ==
    /\ rec.from_iban = t.from_iban
    /\ rec.to_iban = t.to_iban
    /\ rec.transfer_date = t.transfer_date
    /\ AmountEq(rec.transfer_amount, t.transfer_amount)
    /\ rec.transfer_concept = t.transfer_concept
    /\ rec.transfer_type = t.transfer_type

Agreeing(list, t) == {i \in DOMAIN list : SixFieldsAgree(list[i], t)}

\* C1: a transfer_request with valid arguments fails with the duplicate error,
\* leaving the store with exactly one record that agrees with it on the six
\* fields, when such a record was stored before the call; when no stored record
\* agrees on all six fields the call succeeds and its record is stored after
\* the records that were there.
C1_DuplicateIffSixFieldsAgree ==
    (result.op = "transfer_request" /\ TransferValidation(result.args, today) = "ok")
    => LET stored == result.before.transfers.recs
       IN  IF Agreeing(stored, result.args) # {}
           THEN /\ result.out = "Duplicated transfer in transfer list"
                /\ transfers = result.before.transfers
                /\ Cardinality(Agreeing(transfers.recs, result.args)) = 1
           ELSE /\ result.out = "ok"
                /\ Len(transfers.recs) = Len(stored) + 1
                /\ SubSeq(transfers.recs, 1, Len(stored)) = stored
                /\ Cardinality(Agreeing(transfers.recs, result.args)) = 1

\* two transfers that differ in one field are both stored and a repeat of one
\* of them has just been refused
C1_Witness ==
    /\ result.op = "transfer_request"
    /\ result.out = "Duplicated transfer in transfer list"
    /\ Len(transfers.recs) = 2

\* C2: every IBAN held in a stored transfer, deposit or balance record is ES
\* plus 22 digits with the mod-97 control digits.
C2_StoredIbansValid ==
    /\ \A i \in DOMAIN transfers.recs :
          PassesMod97(transfers.recs[i].from_iban) /\ PassesMod97(transfers.recs[i].to_iban)
    /\ \A i \in DOMAIN deposits.recs : PassesMod97(deposits.recs[i].to_iban)
    /\ \A i \in DOMAIN balances.recs : PassesMod97(balances.recs[i].IBAN)

\* each store holds a record, after a call with a wrong IBAN was refused
C2_Witness ==
    /\ Len(transfers.recs) + Len(deposits.recs) + Len(balances.recs) = 2
    /\ result.out \in {"Invalid IBAN control digit", "Invalid IBAN format"}

TargetOf(op) ==
    IF op = "transfer_request" THEN "transfers"
    ELSE IF op = "deposit_into_account" THEN "deposits" ELSE "balances"

\* C9: a successful call leaves its target store one record longer, the earlier
\* records unchanged and in order before the new one, and the other stores as
\* they were; a failed call leaves the three stores as they were.
C9_AppendOnly ==
    result.op # "none"
    => IF result.out = "ok"
       THEN \A name \in {"transfers", "deposits", "balances"} :
              IF name = TargetOf(result.op)
              THEN /\ Stores[name].st = "json"
                   /\ Len(Stores[name].recs) = Len(result.before[name].recs) + 1
                   /\ SubSeq(Stores[name].recs, 1, Len(result.before[name].recs))
                        = result.before[name].recs
              ELSE Stores[name] = result.before[name]
       ELSE Stores = result.before

\* two deposits with the same IBAN and AMOUNT are both stored
C9_Witness ==
    /\ result.op = "deposit_into_account"
    /\ result.out = "ok"
    /\ Len(deposits.recs) = 2
    /\ deposits.recs[1].to_iban = deposits.recs[2].to_iban
    /\ deposits.recs[1].deposit_amount = deposits.recs[2].deposit_amount

(***************************************************************************)
(* validate_iban called on its own                                         *)
(***************************************************************************)
IbanBlocks == {<<0, 0, 0, 0>>, <<1, 2, 3, 4>>, <<9, 9, 9, 9>>}

\* ES, every pair of control digits, and twenty digits made of five blocks;
\* and strings that are not ES plus 22 digits
IbanSamples ==
    {EsIban(code, b1 \o b2 \o b3 \o b4 \o b5) :
        code \in 0..99, b1 \in IbanBlocks, b2 \in IbanBlocks, b3 \in IbanBlocks,
        b4 \in IbanBlocks, b5 \in IbanBlocks}
    \cup {IbanBadFormat,
          IbanA \o <<"0">>,
          <<"e", "s">> \o SubSeq(IbanA, 3, 24),
          SubSeq(IbanA, 1, 23) \o <<"X">>,
          <<>>}

IdleStores ==
    /\ transfers = AbsentFile
    /\ deposits = AbsentFile
    /\ balances = AbsentFile
    /\ transactions = AbsentFile
    /\ today = Today
    /\ clock = 0
    /\ result = NoCall

InitIban ==
    /\ iban_arg \in IbanSamples
    /\ iban_out = NoVerdict
    /\ IdleStores
    /\ IdleConc
    /\ IdleDate

\* a call validate_iban(iban_arg): the exception's message, or the returned string
ValidateIbanCall ==
    /\ iban_out = NoVerdict
    /\ iban_out' = [out |-> validate_iban(iban_arg),
                    ret |-> IF validate_iban(iban_arg) = "ok" THEN iban_arg ELSE <<>>]
    /\ UNCHANGED <<iban_arg, storeVars, concVars, dateVars>>

NextIban == ValidateIbanCall

SpecIban == InitIban /\ [][NextIban]_vars

IsEsDigits(s) ==
    /\ Len(s) = 24
    /\ SubSeq(s, 1, 2) = <<"E", "S">>
    /\ \A i \in 3..24 : s[i] \in {"0", "1", "2", "3", "4", "5", "6", "7", "8", "9"}

DateSamples ==
    {DateStr(d, m, y) : d \in {0, 1, 28, 29, 30, 31, 32},
                        m \in {0, 1, 2, 4, 12, 13},
                        y \in {0, 2024, 2025, 2026, 2028, 2050, 2051}}

\* UTC dates the clock may show
Todays == {Date(31, 12, 2024), Date(4, 11, 2026), Date(29, 2, 2028), Date(1, 1, 2051)}

InitDate ==
    /\ date_arg \in DateSamples
    /\ date_out = "none"
    /\ transfers = AbsentFile
    /\ deposits = AbsentFile
    /\ balances = AbsentFile
    /\ transactions = AbsentFile
    /\ today \in Todays
    /\ clock = 0
    /\ result = NoCall
    /\ IdleConc
    /\ IdleIban

\* a call validate_transfer_date(date_arg)
ValidateDateCall ==
    /\ date_out = "none"
    /\ date_out' = validate_transfer_date(date_arg, today)
    /\ UNCHANGED <<date_arg, storeVars, concVars, ibanVars>>

NextDate == ValidateDateCall

SpecDate == InitDate /\ [][NextDate]_vars

ArgDay == 10 * DigitVal(date_arg[1]) + DigitVal(date_arg[2])
ArgMonth == 10 * DigitVal(date_arg[4]) + DigitVal(date_arg[5])
ArgYear == 1000 * DigitVal(date_arg[7]) + 100 * DigitVal(date_arg[8])
           + 10 * DigitVal(date_arg[9]) + DigitVal(date_arg[10])

ArgIsRealDate ==
    /\ ArgYear >= 1
    /\ ArgMonth \in 1..12
    /\ ArgDay >= 1
    /\ ArgDay <= (IF ArgMonth = 2
                  THEN (IF ArgYear % 4 = 0 /\ (ArgYear % 100 # 0 \/ ArgYear % 400 = 0)
                        THEN 29 ELSE 28)
                  ELSE IF ArgMonth \in {4, 6, 9, 11} THEN 30 ELSE 31)

ArgInPast ==
    \/ ArgYear < today.y
    \/ ArgYear = today.y /\ ArgMonth < today.m
    \/ ArgYear = today.y /\ ArgMonth = today.m /\ ArgDay < today.d

ArgYearInRange == ArgYear >= 2025 /\ ArgYear <= 2050

\* C8 as stated: a real date succeeds iff it is not in the past and its year is
\* in [2025, 2050]; a past date gets the date-in-past error; a year outside
\* [2025, 2050] gets the invalid-date-format error; a string that is no real
\* date gets the invalid-date-format error.
C8_AsStated ==
    date_out # "none"
    => IF ArgIsRealDate
       THEN /\ date_out = "ok" <=> (~ArgInPast /\ ArgYearInRange)
            /\ ArgInPast => date_out = "Transfer date must be today or later."
            /\ ~ArgYearInRange => date_out = "Invalid date format"
       ELSE date_out = "Invalid date format"

\* C8 as the code has it: the year range is checked after the past check, so a
\* year outside [2025, 2050] gets the invalid-date-format error only when the
\* date is not in the past.
C8_PastCheckedFirst ==
    date_out # "none"
    => IF ArgIsRealDate
       THEN /\ date_out = "ok" <=> (~ArgInPast /\ ArgYearInRange)
            /\ ArgInPast => date_out = "Transfer date must be today or later."
            /\ (~ArgInPast /\ ~ArgYearInRange) => date_out = "Invalid date format"
       ELSE date_out = "Invalid date format"

\* a real date of a year before 2025, in the past, was refused as past
C8_Witness ==
    /\ date_out = "Transfer date must be today or later."
    /\ ArgIsRealDate
    /\ ArgYear < 2025

(***************************************************************************)
(* deposit_into_account over input files of every key set                  *)
(***************************************************************************)
DepositFiles ==
    {InputObject(keys, iban, amount) :
        keys \in SUBSET {"IBAN", "AMOUNT", "EXTRA"},
        iban \in {IbanA, IbanBadControl},
        amount \in {Eur1234, EurZero, EurShort}}
    \cup {[st |-> "absent", data |-> <<>>], [st |-> "bad", data |-> <<>>]}

NextDeposit ==
    \/ \E input_file \in DepositFiles : deposit_into_account(input_file)
    \/ Tick

SpecDeposit == Init /\ [][NextDeposit]_vars

\* C3 as stated: an input object whose key set is not exactly {IBAN, AMOUNT}
\* gets the invalid-key error and nothing is appended.
C3_AsStated ==
    (/\ result.op = "deposit_into_account"
     /\ result.args.st = "json"
     /\ DOMAIN result.args.data # {"IBAN", "AMOUNT"})
    => /\ result.out = "Error - Invalid Key in JSON"
       /\ deposits = result.before.deposits

\* C3 as the code has it: the invalid-key error is raised exactly when IBAN or
\* AMOUNT is missing, and then nothing is appended; further keys are ignored.
C3_MissingKeyOnly ==
    (result.op = "deposit_into_account" /\ result.args.st = "json")
    => /\ result.out = "Error - Invalid Key in JSON"
            <=> ("IBAN" \notin DOMAIN result.args.data
                 \/ "AMOUNT" \notin DOMAIN result.args.data)
       /\ result.out = "Error - Invalid Key in JSON"
            => deposits = result.before.deposits

\* an input with IBAN, AMOUNT and one more key was accepted and stored
C3_Witness ==
    /\ result.op = "deposit_into_account"
    /\ result.args.st = "json"
    /\ DOMAIN result.args.data = {"IBAN", "AMOUNT", "EXTRA"}
    /\ result.out = "ok"
    /\ Len(deposits.recs) = Len(result.before.deposits.recs) + 1

(***************************************************************************)
(* calculate_balance over several transactions stores                      *)
(***************************************************************************)
TransactionStores ==
    {JsonFile(<<>>),
     JsonFile(TransactionsA),
     JsonFile(<<Transaction(IbanA, 50), Transaction(IbanA, -50)>>),
     JsonFile(<<Transaction(IbanB, 5), Transaction(IbanB, 5), Transaction(IbanB, -3)>>),
     JsonFile(<<Transaction(IbanBadControl, 9), Transaction(IbanA, 0)>>),
     AbsentFile,
     BadFile}

InitBalance ==
    /\ transfers = AbsentFile
    /\ deposits = AbsentFile
    /\ balances = AbsentFile
    /\ transactions \in TransactionStores
    /\ today = Today
    /\ clock = 0
    /\ result = NoCall
    /\ IdleConc
    /\ IdleIban
    /\ IdleDate

NextBalance ==
    \/ \E iban \in BalanceInputs : calculate_balance(iban)
    \/ Tick

SpecBalance == InitBalance /\ [][NextBalance]_vars

Matching(list, iban) == {i \in DOMAIN list : list[i].IBAN = iban}

RECURSIVE SumOver(_, _)
SumOver(list, indices) ==
    IF indices = {} THEN 0
    ELSE LET i == CHOOSE i \in indices : TRUE
         IN  list[i].amount + SumOver(list, indices \ {i})

\* C4: with a valid IBAN and a readable transactions list, calculate_balance
\* fails with the IBAN-not-found error and appends nothing iff no transaction
\* has that IBAN; otherwise it succeeds and the appended snapshot's BALANCE is
\* the sum of amount over the transactions with that IBAN.
C4_BalanceIsSumOfMatching ==
    (/\ result.op = "calculate_balance"
     /\ PassesMod97(result.args)
     /\ transactions.st = "json")
    => IF Matching(transactions.recs, result.args) = {}
       THEN /\ result.out = "IBAN not found"
            /\ balances = result.before.balances
       ELSE /\ result.out = "ok"
            /\ Len(balances.recs) = Len(result.before.balances.recs) + 1
            /\ balances.recs[Len(balances.recs)].IBAN = result.args
            /\ balances.recs[Len(balances.recs)].BALANCE
                 = SumOver(transactions.recs, Matching(transactions.recs, result.args))

\* a snapshot with BALANCE 0 was stored for an IBAN whose transactions cancel
C4_Witness ==
    /\ result.op = "calculate_balance"
    /\ result.out = "ok"
    /\ Len(transactions.recs) = 2
    /\ balances.recs[Len(balances.recs)].BALANCE = 0
    /\ transactions.recs[1].amount = 50

(***************************************************************************)
(* transfer_request over arguments with any number of invalid ones         *)
(***************************************************************************)
\* every combination of a valid value and invalid values of each argument:
\* amounts 100.0, 9.99, 10000.01, 10.005 and "abc"; dates today, yesterday,
\* 31/02/2027 and 01/01/2051
TransferArguments ==
    [from_iban : {IbanA, IbanBadControl, IbanBadFormat},
     to_iban : {IbanB, IbanBadControl, IbanBadFormat},
     transfer_concept : {ConceptA, ConceptDigit},
     transfer_type : {"ORDINARY", "IMMEDIATE"},
     transfer_date : {DateStr(4, 11, 2026), DateStr(3, 11, 2026),
                      DateStr(31, 2, 2027), DateStr(1, 1, 2051)},
     transfer_amount : {FloatAmount(100000), FloatAmount(9990), FloatAmount(10000010),
                        FloatAmount(10005), StrAmount(<<"a", "b", "c">>)}]

NextArgs == \E t \in TransferArguments : transfer_request(t)

SpecArgs == Init /\ [][NextArgs]_vars

\* the message of the first invalid argument in the order from_iban, to_iban,
\* concept, transfer_type, date, amount; "ok" when all six are valid
FirstInvalid(t) ==
    IF validate_iban(t.from_iban) # "ok" THEN validate_iban(t.from_iban)
    ELSE IF validate_iban(t.to_iban) # "ok" THEN validate_iban(t.to_iban)
    ELSE IF validate_concept(t.transfer_concept) # "ok" THEN "Invalid concept format"
    ELSE IF t.transfer_type \notin {"ORDINARY", "INMEDIATE", "URGENT"}
         THEN "Invalid transfer type"
    ELSE IF validate_transfer_date(t.transfer_date, today) # "ok"
         THEN validate_transfer_date(t.transfer_date, today)
    ELSE validate_amount(t.transfer_amount)

\* C6: when one or more arguments of transfer_request are invalid the call
\* reports the error of the first invalid one in the order from_iban, to_iban,
\* concept, transfer_type, date, amount, returns no transfer code and leaves
\* the transfers store as it was.
C6_FirstInvalidReported ==
    (result.op = "transfer_request" /\ FirstInvalid(result.args) # "ok")
    => /\ result.out = FirstInvalid(result.args)
       /\ result.ret = <<>>
       /\ transfers = result.before.transfers

\* a call with a valid from_iban and five invalid arguments reported the to_iban
C6_Witness ==
    /\ result.op = "transfer_request"
    /\ result.args.from_iban = IbanA
    /\ result.args.to_iban = IbanBadControl
    /\ result.args.transfer_concept = ConceptDigit
    /\ result.args.transfer_type = "IMMEDIATE"
    /\ result.args.transfer_date = DateStr(3, 11, 2026)
    /\ result.args.transfer_amount = FloatAmount(9990)
    /\ result.out = "Invalid IBAN control digit"
    /\ Len(transfers.recs) = 1

(***************************************************************************)
(* Calls made with store files that are absent or are not JSON             *)
(***************************************************************************)
InitEnv ==
    /\ transfers \in {AbsentFile, BadFile}
    /\ deposits \in {AbsentFile, BadFile}
    /\ balances \in {AbsentFile, BadFile}
    /\ transactions \in {AbsentFile, BadFile, JsonFile(TransactionsA)}
    /\ today = Today
    /\ clock = 0
    /\ result = NoCall
    /\ IdleConc
    /\ IdleIban
    /\ IdleDate

NextEnv ==
    \/ \E t \in {BaseTransfer, [BaseTransfer EXCEPT !.to_iban = IbanBadFormat]} :
           transfer_request(t)
    \/ \E input_file \in {InputObject({"IBAN", "AMOUNT"}, IbanA, Eur1234),
                          InputObject({"IBAN", "AMOUNT"}, IbanA, EurZero)} :
           deposit_into_account(input_file)
    \/ \E iban \in {IbanA, IbanBadControl} : calculate_balance(iban)
    \/ Tick

SpecEnv == InitEnv /\ [][NextEnv]_vars

\* the call of result had valid arguments (and, for calculate_balance, readable
\* transactions holding the IBAN), so that only its store file decides it
OtherwiseValid ==
    IF result.op = "transfer_request"
    THEN FirstInvalid(result.args) = "ok"
    ELSE IF result.op = "deposit_into_account"
    THEN /\ result.args.st = "json"
         /\ DOMAIN result.args.data = {"IBAN", "AMOUNT"}
         /\ PassesMod97(result.args.data.IBAN)
         /\ result.args.data.AMOUNT \in {Eur1234, Eur0001}
    ELSE /\ result.op = "calculate_balance"
         /\ PassesMod97(result.args)
         /\ transactions.st = "json"
         /\ Matching(transactions.recs, result.args) # {}

\* C7: an otherwise valid operation whose store file is absent succeeds and
\* leaves the store with exactly the new record; with a store file that is not
\* valid JSON it fails with the JSON-decode error and leaves the file as it was;
\* calculate_balance with a valid IBAN fails and appends nothing when the
\* transactions file is absent or is not valid JSON.
C7_AbsentIsEmptyMalformedIsFatal ==
    /\ OtherwiseValid
       => LET name == TargetOf(result.op)
          IN  /\ result.before[name].st = "absent"
                   => /\ result.out = "ok"
                      /\ Stores[name].st = "json"
                      /\ Len(Stores[name].recs) = 1
              /\ result.before[name].st = "bad"
                   => /\ result.out = "JSON Decode Error - Wrong JSON Format"
                      /\ Stores[name] = BadFile
    /\ (result.op = "calculate_balance" /\ PassesMod97(result.args))
       => /\ transactions.st = "absent"
               => /\ result.out = "Wrong file  or file path"
                  /\ balances = result.before.balances
          /\ transactions.st = "bad"
               => /\ result.out = "JSON Decode Error - Wrong JSON Format"
                  /\ balances = result.before.balances

\* a transfer created the absent transfers store, then a balance query found
\* the balances file not to be JSON
C7_Witness ==
    /\ transfers.st = "json"
    /\ Len(transfers.recs) = 1
    /\ result.op = "calculate_balance"
    /\ result.before.balances.st = "bad"
    /\ result.out = "JSON Decode Error - Wrong JSON Format"
    /\ balances = BadFile

(***************************************************************************)
(* Two invocations of transfer_request on the same transfers store         *)
(***************************************************************************)
\* invocations that have loaded the store or returned
MaxCalls == 3

UrgentTransfer == [BaseTransfer EXCEPT !.transfer_type = "URGENT"]

ConcInputs == {BaseTransfer, UrgentTransfer}

NoneReturned == [t \in ConcInputs |-> 0]

InFlight == {p \in Procs : pc[p] # "idle"}

Calls == Cardinality(InFlight) + returned[BaseTransfer] + returned[UrgentTransfer]

InitConc ==
    /\ transfers = AbsentFile
    /\ deposits = AbsentFile
    /\ balances = AbsentFile
    /\ transactions = AbsentFile
    /\ today = Today
    /\ clock = 0
    /\ result = NoCall
    /\ pc = [p \in Procs |-> "idle"]
    /\ local = [p \in Procs |-> NoLocal]
    /\ returned = NoneReturned
    /\ overlapped = FALSE
    /\ IdleIban
    /\ IdleDate

\* lines 110-157: validation, load, duplicate check and the append to the
\* local transfer_list; a call that raises here leaves everything as it was
Load(p, t) ==
    /\ pc[p] = "idle"
    /\ Calls < MaxCalls
    /\ \E o \in {TransferOutcome(t, transfers, today)} :
          /\ o.out = "ok"
          /\ local' = [local EXCEPT ![p] = [t |-> t, list |-> o.list, stale |-> FALSE]]
    /\ pc' = [pc EXCEPT ![p] = "loaded"]
    /\ overlapped' = (overlapped \/ InFlight # {})
    /\ UNCHANGED <<returned, storeVars, ibanVars, dateVars>>

\* line 160: open(TRANSFERS_STORE_FILE, "w") empties the file
OpenForWrite(p) ==
    /\ pc[p] = "loaded"
    /\ pc' = [pc EXCEPT ![p] = "opened"]
    /\ transfers' = BadFile
    /\ UNCHANGED <<local, returned, overlapped>>
    /\ UNCHANGED <<deposits, balances, transactions, today, clock, result>>
    /\ UNCHANGED <<ibanVars, dateVars>>

\* lines 161-167: json.dump, the close that writes the file from its start, and
\* the return.  When another invocation has written since this one opened the
\* file, the text lands over that one's: the file is this invocation's list, or
\* not JSON when the other text was the longer one (lengths are not modelled).
Dump(p) ==
    /\ pc[p] = "opened"
    /\ pc' = [pc EXCEPT ![p] = "idle"]
    /\ \/ transfers' = JsonFile(local[p].list)
       \/ local[p].stale /\ transfers' = BadFile
    /\ returned' = [returned EXCEPT ![local[p].t] = @ + 1]
    /\ local' = [q \in Procs |->
                    IF q = p THEN NoLocal
                    ELSE IF pc[q] = "opened" THEN [local[q] EXCEPT !.stale = TRUE]
                    ELSE local[q]]
    /\ UNCHANGED overlapped
    /\ UNCHANGED <<deposits, balances, transactions, today, clock, result>>
    /\ UNCHANGED <<ibanVars, dateVars>>

NextConc ==
    \/ \E p \in Procs, t \in ConcInputs : Load(p, t)
    \/ \E p \in Procs : OpenForWrite(p)
    \/ \E p \in Procs : Dump(p)

SpecConc == InitConc /\ [][NextConc]_vars

Stored(t) == transfers.st = "json" /\ Agreeing(transfers.recs, t) # {}

Quiescent == InFlight = {}

=============================================================================
